---- MODULE Spec2Model ----
(***************************************************************************)
(* Protocol client of the AGV repository:                                  *)
(*   src/agv_control.py    send_control_command, agv_keyboard_control      *)
(*   src/agv_laser_get.py  connect_to_agv, get_laser_from_agv, __main__    *)
(* One behaviour runs one entry point, chosen in Init:                     *)
(*   "keyboard"  agv_keyboard_control()                                    *)
(*   "command"   one call send_control_command(api, params, retry=r)       *)
(*   "laser"     the __main__ block of agv_laser_get.py                    *)
(*   "receive"   one call receive_full_data(sock, expected_len)            *)
(* Sockets are numbered objects; socks[s] is the state of socket s.        *)
(* The peer and the network are the nondeterministic inputs of each step.  *)
(*                                                                         *)
(* What the model takes from outside the two source files:                 *)
(*   - packMsg and unpackHead belong to the vendor module rbkNetProtoEnums:*)
(*     packMsg returns a non-empty message, unpackHead returns a pair      *)
(*     (length, correlator) or raises;                                     *)
(*   - socket.socket() succeeds; send succeeds on a connected socket or    *)
(*     raises socket.error; recv returns bytes, raises socket.timeout or   *)
(*     raises socket.error;                                                *)
(*   - a response body is told apart only as far as the code tells it      *)
(*     apart (CmdBodies, OtherBodies, the beam dicts);                     *)
(*   - close() raises nothing; the peer answers requests in the order      *)
(*     it receives them and the stream keeps that order;                   *)
(*   - distances are whole centimetres.                                    *)
(***************************************************************************)
EXTENDS Integers, Sequences, FiniteSets, TLC

-----------------------------------------------------------------------------
(* Bounds of the model *)

\* largest retry argument the "command" entry point passes
MaxRetry == 2
\* iterations of the keyboard loop before ROS shutdown is forced
MaxCycles == 2

\* beams of one sensor body, over all its groups
MaxBeams == 2
\* beam groups of one sensor body
MaxGroups == 2

(* Program constants *)

\* agv_laser_get.py:28 (the same literal at agv_control.py:50)
\* the sequence number both modules pass to packMsg (agv_control.py:28,
\* agv_laser_get.py:127)
PackReqId == 1

\* the most bytes one recv of receive_full_data asks for (line 73)
RECV_SIZE == 8192

MAX_DATA_LEN == 10 * 1024 * 1024
\* agv_laser_get.py:29
ROBOT_STATUS_LASER_RESP == 11009

\* agv_laser_get.py:18
API_PORT_STATE == 19204
\* agv_laser_get.py:22-23, in centimetres (5.0 m and 0.1 m)
LASER_RANGE_MAX == 500
LASER_RANGE_MIN == 10
\* agv_laser_get.py:24
ROS_PUB_FREQ == 10
\* values of LASER_STEP (agv_laser_get.py:20): the one of the source and one
\* outside the range validate_laser_params allows
LaserSteps == {1, 101}

\* a small positive payload length
SmallLen == 2
\* the largest expected_len receive_full_data is called with on its own
MaxLen == 6
\* payload lengths a received header may declare
HeaderLens == {-1, 0, SmallLen, MAX_DATA_LEN, MAX_DATA_LEN + 1, 11 * 1024 * 1024}
\* correlators a received header may carry: an echoed sequence number, the
\* laser response type, another response type
Correlators == {1, ROBOT_STATUS_LASER_RESP, 11000}

\* what the bytes of a command response body are, as send_control_command
\* tells them apart: not UTF-8, not JSON, JSON but no object, or an object
\* whose ret_code is absent, 0 or another value
CmdBodies == {"badutf8", "badjson", "nonobject", "rc_absent", "rc_zero", "rc_nonzero"}

-----------------------------------------------------------------------------
VARIABLES
    entry,          \* the entry point this behaviour runs
    socks,          \* socket objects: "new" (unconnected), "conn", "closed"
    so,             \* agv_control.so: 0 is None, else a socket number
    kpc,            \* position in agv_keyboard_control / in the command caller
    cycles,         \* completed iterations of the keyboard loop
    cpc,            \* position in send_control_command ("idle": not in a call)
    api,            \* api_type of the call
    retry,          \* retry argument of the call
    i,              \* loop variable of the call
    ret,            \* how the call ended: "none", "True", "False", "raise"
    lastErr,        \* why the last attempt failed ("none": it has not)
    hdrState,       \* header of the attempt: "none", "short", "bad", "ok"
    json_data_len,  \* payload length unpackHead returned
    corr,           \* back_req_num / resp_type unpackHead returned
    resp,           \* what the body of the attempt was
    bodyReads,      \* body recv calls issued since the last header read
    sends,          \* so.send calls of the current call
    timeouts,       \* attempts of the current call ended by a receive timeout
    failSock,       \* socket of the last transport failure of the call, or 0
    sendSock,       \* socket of the last send call, or 0
    closedSends,    \* send calls made on a closed socket, over the whole run
    LASER_STEP,     \* agv_laser_get.LASER_STEP, a configuration value
    lpc,            \* position in agv_laser_get.py ("off": not running)
    sock,           \* get_laser_from_agv's sock: -1 unbound, 0 None, else a socket
    attempt,        \* loop variable of connect_to_agv (0 outside connect_to_agv)
    laser_json,     \* the body received: [kind, lasers]
    valid_beams,    \* get_laser_from_agv's valid_beams
    result,         \* how get_laser_from_agv ended: "none", "None", "list", "raise"
    mainBranch,     \* what __main__ did with it: "none", "publish", "logerr", "crash"
    connects,       \* sock.connect calls made by connect_to_agv
    connFails,      \* those of them that raised socket.error
    waits,          \* time.sleep(3) calls made by connect_to_agv
    closes,         \* sock.close() calls of get_laser_from_agv that closed a socket
    reqSock,        \* socket the last request of the run went out on, or 0
    reqNum,         \* sequence number packed into that request
    prevNum,        \* sequence number of the request before it on reqSock, or 0
    owed,           \* requests sent on so whose reply has not been read yet
    stale,          \* the header read last answers an earlier request
    frame,          \* the peer answered the last request with one complete,
                    \* well-formed frame and kept the connection open (as far
                    \* as the reads of the attempt tell)
    unread,         \* a read returned a first chunk only and the rest of
                    \* that frame was left on the socket
    rpc,            \* position in receive_full_data ("off": not running)
    expected_len,   \* its argument
    remaining,      \* its local remaining
    received,       \* its local received: the bytes, named by their position
                    \* in the stream the socket delivers
    delivered,      \* bytes the socket has delivered to the call
    zeroRead,       \* a recv of the call returned no bytes
    lastReq,        \* size the last recv of the call asked for
    lastRem,        \* remaining when it asked
    rret            \* how the call ended: "none", "bytes" (it returned
                    \* received), "None", "raise"

sockVars == <<socks, so>>
kbVars == <<kpc, cycles>>
callVars == <<cpc, api, retry, i, ret, lastErr>>
hdrVars == <<hdrState, json_data_len, corr, resp, bodyReads>>
histVars == <<sends, timeouts, failSock, sendSock, closedSends>>
laserVars == <<lpc, sock, attempt, laser_json, valid_beams, result, mainBranch>>
connVars == <<connects, connFails, waits>>
seqVars == <<reqSock, reqNum, prevNum>>
replyVars == <<owed, stale>>
wireVars == <<frame, unread>>
rfdVars == <<rpc, expected_len, remaining, received, delivered, zeroRead,
             lastReq, lastRem, rret>>
vars == <<entry, socks, so, kpc, cycles, cpc, api, retry, i, ret, lastErr,
          hdrState, json_data_len, corr, resp, bodyReads,
          sends, timeouts, failSock, sendSock, closedSends,
          LASER_STEP, lpc, sock, attempt, laser_json, valid_beams, result,
          mainBranch, connects, connFails, waits, closes,
          reqSock, reqNum, prevNum, owed, stale, frame, unread,
          rpc, expected_len, remaining, received, delivered, zeroRead,
          lastReq, lastRem, rret>>

-----------------------------------------------------------------------------
(* Sockets *)

\* socket.socket(): a new, unconnected socket object
NewSock == Len(socks) + 1
\* s.close()
Closed(ss, s) == [ss EXCEPT ![s] = "closed"]
\* request_msg / request: the message packMsg built, sent on socket s
Request(s) ==
    /\ reqSock' = s
    /\ reqNum' = PackReqId
    /\ prevNum' = IF reqSock = s THEN reqNum ELSE 0

-----------------------------------------------------------------------------
(* send_control_command, agv_control.py:20-83 *)

\* the call: lines 20-33, up to the first iteration of the loop
CmdCall(a, r) ==
    /\ cpc = "idle"
    /\ api' = a /\ retry' = r /\ i' = 0
    /\ lastErr' = "none"
    /\ sends' = 0 /\ timeouts' = 0 /\ failSock' = 0 /\ sendSock' = 0
    /\ hdrState' = "none" /\ json_data_len' = 0 /\ corr' = 0
    /\ resp' = "none" /\ bodyReads' = 0
    /\ IF so = 0
         THEN cpc' = "done" /\ ret' = "False"
         ELSE cpc' = "send" /\ ret' = "none"
    /\ stale' = FALSE /\ frame' = FALSE /\ unread' = FALSE
    /\ UNCHANGED <<sockVars, closedSends, owed>>

\* EndOfIteration with the loop bound off by one
EndOfIterationOneMore ==
    IF i <= retry
      THEN cpc' = "sleep" /\ UNCHANGED <<i, ret>>
      ELSE cpc' = "done" /\ ret' = "False" /\ UNCHANGED i

\* the end of an iteration that did not return: lines 79-80, then the loop
\* header of line 33, then (loop exhausted) lines 82-83
EndOfIteration ==
    IF i < retry
      THEN cpc' = "sleep" /\ UNCHANGED <<i, ret>>
      ELSE cpc' = "done" /\ ret' = "False" /\ UNCHANGED i

\* "continue" (lines 43, 52): the next iteration without the sleep, or the
\* end of the loop
Continue ==
    IF i < retry
      THEN cpc' = "send" /\ i' = i + 1 /\ UNCHANGED ret
      ELSE cpc' = "done" /\ ret' = "False" /\ UNCHANGED i

\* except socket.timeout, lines 64-65
OnTimeout ==
    /\ lastErr' = "timeout"
    /\ timeouts' = timeouts + 1
    /\ failSock' = so
    /\ EndOfIteration

\* except socket.error, lines 66-69: the reconnect is the step CmdReconnect
OnSocketError ==
    /\ lastErr' = "sockerr"
    /\ failSock' = so
    /\ UNCHANGED timeouts
    /\ IF i < retry
         THEN cpc' = "reconnect" /\ UNCHANGED <<i, ret>>
         ELSE cpc' = "done" /\ ret' = "False" /\ UNCHANGED i

\* except json.JSONDecodeError / except Exception, lines 74-77
OnOtherError(kind) ==
    /\ lastErr' = kind
    /\ UNCHANGED <<timeouts, failSock>>
    /\ EndOfIteration

\* so.send(request_msg), line 35
CmdSend ==
    /\ cpc = "send"
    /\ sends' = sends + 1
    /\ sendSock' = so
    /\ closedSends' = IF socks[so] = "closed" THEN closedSends + 1 ELSE closedSends
    /\ hdrState' = "none" /\ json_data_len' = 0 /\ corr' = 0
    /\ resp' = "none" /\ bodyReads' = 0
    /\ stale' = FALSE /\ frame' = FALSE /\ unread' = FALSE
    /\ \/ /\ socks[so] = "conn"
          /\ Request(so)
          /\ owed' = owed + 1
          /\ cpc' = "recvHeader"
          /\ UNCHANGED <<i, ret, lastErr, timeouts, failSock>>
       \/ OnSocketError /\ UNCHANGED <<seqVars, owed>>
    /\ UNCHANGED <<entry, LASER_STEP, rfdVars, closes, connVars, laserVars, kbVars,
                   sockVars, api, retry>>

\* HeaderRead without the size limit of lines 50-52
HeaderReadNoLimit(len, c) ==
    /\ hdrState' = "ok" /\ json_data_len' = len /\ corr' = c
    /\ IF len > 0
         THEN /\ cpc' = "recvBody"
              /\ UNCHANGED <<i, ret, lastErr, timeouts, failSock, resp, bodyReads>>
         ELSE IF len = 0
           THEN /\ resp' = "empty"
                /\ cpc' = "done" /\ ret' = "True"
                /\ UNCHANGED <<i, lastErr, timeouts, failSock, bodyReads>>
           ELSE /\ bodyReads' = bodyReads + 1
                /\ UNCHANGED resp
                /\ OnOtherError("exc")

\* lines 39-54 for a header of 16 bytes that unpackHead accepts
HeaderRead(len, c) ==
    /\ hdrState' = "ok" /\ json_data_len' = len /\ corr' = c
    /\ IF len > 10 * 1024 * 1024
         THEN \* lines 50-52
              /\ lastErr' = "size"
              /\ UNCHANGED <<timeouts, failSock, resp, bodyReads>>
              /\ Continue
         ELSE IF len > 0
           THEN \* line 54, so.recv(json_data_len): the step CmdRecvBody
                /\ cpc' = "recvBody"
                /\ UNCHANGED <<i, ret, lastErr, timeouts, failSock, resp, bodyReads>>
           ELSE IF len = 0
             THEN \* line 54 takes "{}", lines 55-60 return True
                  /\ resp' = "empty"
                  /\ cpc' = "done" /\ ret' = "True"
                  /\ UNCHANGED <<i, lastErr, timeouts, failSock, bodyReads>>
             ELSE \* line 54: so.recv of a negative size raises ValueError
                  /\ bodyReads' = bodyReads + 1
                  /\ UNCHANGED resp
                  /\ OnOtherError("exc")

\* so.settimeout(5.0); header = so.recv(16) and what follows, lines 39-54
CmdRecvHeader ==
    /\ cpc = "recvHeader"
    /\ \/ /\ OnTimeout
          /\ frame' = FALSE
          /\ UNCHANGED <<hdrVars, replyVars, unread>>
       \/ /\ OnSocketError
          /\ frame' = FALSE
          /\ UNCHANGED <<hdrVars, replyVars, unread>>
       \/ \* fewer than 16 bytes, lines 41-43: the peer closed or sent no
          \* more, or these are the first chunk of a whole frame; what the
          \* stream holds after that is not known, the count restarts
          /\ hdrState' = "short"
          /\ lastErr' = "short"
          /\ failSock' = so
          /\ Continue
          /\ owed' = 0
          /\ \/ frame' = FALSE /\ unread' = FALSE
             \/ frame' = TRUE /\ unread' = TRUE
          /\ UNCHANGED <<timeouts, json_data_len, corr, resp, bodyReads, stale>>
       \/ \* unpackHead raises, line 46, caught at line 76
          /\ hdrState' = "bad"
          /\ OnOtherError("exc")
          /\ frame' = FALSE
          /\ UNCHANGED <<json_data_len, corr, resp, bodyReads, replyVars, unread>>
       \/ \* a header: the stream delivers replies in the order of the
          \* requests, so it answers the k-th request still owed a reply
          \* and the ones before it were never answered
          /\ \E len \in HeaderLens, c \in Correlators :
                /\ HeaderRead(len, c)
                /\ frame' = (0 <= len /\ len <= 10 * 1024 * 1024)
          /\ \E k \in 1..owed :
                /\ owed' = owed - k
                /\ stale' = (k < owed)
          /\ UNCHANGED unread
    /\ UNCHANGED <<entry, LASER_STEP, rfdVars, seqVars, closes, connVars, laserVars,
                   kbVars, sockVars, api, retry, sends, sendSock, closedSends>>

\* lines 55-62 for a body that was received
BodyRead(b) ==
    /\ resp' = b
    /\ IF b = "badjson"
         THEN OnOtherError("json")
         ELSE IF b \in {"badutf8", "nonobject"}
           THEN OnOtherError("exc")
           ELSE IF b \in {"rc_absent", "rc_zero"}
             THEN \* resp_json.get("ret_code", 0) == 0, lines 58-60
                  /\ cpc' = "done" /\ ret' = "True"
                  /\ UNCHANGED <<i, lastErr, timeouts, failSock>>
             ELSE \* lines 61-62, then the end of the iteration
                  OnOtherError("reject")

\* so.recv(json_data_len).decode('utf-8') and what follows, lines 54-62
CmdRecvBody ==
    /\ cpc = "recvBody"
    /\ bodyReads' = bodyReads + 1
    /\ \/ /\ OnTimeout
          /\ frame' = FALSE
          /\ UNCHANGED <<resp, unread>>
       \/ /\ OnSocketError
          /\ frame' = FALSE
          /\ UNCHANGED <<resp, unread>>
       \/ \* recv returned the whole body
          \E b \in CmdBodies :
            /\ BodyRead(b)
            /\ frame' = (frame /\ b \in {"rc_absent", "rc_zero", "rc_nonzero"})
            /\ UNCHANGED unread
       \/ \* recv returned the first chunk of a body that is a JSON object:
          \* a proper prefix of it is no JSON text, or ends inside a
          \* character
          /\ frame /\ json_data_len >= 2
          /\ \E b \in {"badjson", "badutf8"} : BodyRead(b)
          /\ unread' = TRUE
          /\ UNCHANGED frame
    /\ UNCHANGED <<entry, LASER_STEP, rfdVars, replyVars, seqVars, closes, connVars,
                   laserVars, kbVars, sockVars, api, retry, hdrState, json_data_len,
                   corr, sends, sendSock, closedSends>>

\* CmdReconnect without the new socket of line 71: so stays the closed one
CmdReconnectSameSocket ==
    /\ cpc = "reconnect"
    /\ so' = so
    /\ \/ /\ socks' = Closed(socks, so)
          /\ cpc' = "sleep"
          /\ UNCHANGED ret
       \/ /\ socks' = Closed(socks, so)
          /\ cpc' = "done"
          /\ ret' = "raise"
    /\ owed' = 0 /\ UNCHANGED stale
    /\ UNCHANGED <<entry, LASER_STEP, rfdVars, wireVars, seqVars, closes, connVars,
                   laserVars, kbVars, api, retry, i, lastErr, hdrVars, histVars>>

\* lines 70-73, reached from the socket.error handler when i < retry:
\* close, a new socket, connect; a failed connect leaves the call
CmdReconnect ==
    /\ cpc = "reconnect"
    /\ so' = NewSock
    /\ \/ /\ socks' = Append(Closed(socks, so), "conn")
          /\ cpc' = "sleep"
          /\ UNCHANGED ret
       \/ /\ socks' = Append(Closed(socks, so), "new")
          /\ cpc' = "done"
          /\ ret' = "raise"
    /\ owed' = 0 /\ UNCHANGED stale
    /\ UNCHANGED <<entry, LASER_STEP, rfdVars, wireVars, seqVars, closes, connVars,
                   laserVars, kbVars, api, retry, i, lastErr, hdrVars, histVars>>

\* time.sleep(0.5), line 80, and the next iteration
CmdSleep ==
    /\ cpc = "sleep"
    /\ cpc' = "send"
    /\ i' = i + 1
    /\ UNCHANGED <<entry, LASER_STEP, rfdVars, wireVars, replyVars, seqVars, closes,
                   connVars, laserVars, kbVars, sockVars, api, retry, ret, lastErr,
                   hdrVars, histVars>>

-----------------------------------------------------------------------------
(* a caller of send_control_command with any api and retry count;
   so is None (agv_control.py:17) or an established connection *)

CallerCall ==
    /\ entry = "command" /\ kpc = "c_call"
    /\ \E a \in {"motion", "stop"}, r \in 0..MaxRetry : CmdCall(a, r)
    /\ kpc' = "c_wait"
    /\ UNCHANGED <<entry, LASER_STEP, rfdVars, seqVars, closes, connVars, laserVars,
                   cycles>>

CallerReturn ==
    /\ entry = "command" /\ kpc = "c_wait" /\ cpc = "done"
    /\ kpc' = "c_done"
    /\ cpc' = "idle"
    /\ UNCHANGED <<entry, LASER_STEP, rfdVars, wireVars, replyVars, seqVars, closes,
                   connVars, laserVars, cycles, sockVars, api, retry, i, ret, lastErr,
                   hdrVars, histVars>>

-----------------------------------------------------------------------------
(* agv_keyboard_control, agv_control.py:95-127 *)

\* lines 97-103: so = socket.socket(...)
KbSocket ==
    /\ entry = "keyboard" /\ kpc = "k_start"
    /\ so' = NewSock
    /\ owed' = 0 /\ UNCHANGED stale
    /\ socks' = Append(socks, "new")
    /\ kpc' = "k_connect"
    /\ UNCHANGED <<entry, LASER_STEP, rfdVars, wireVars, seqVars, closes, connVars,
                   laserVars, cycles, callVars, hdrVars, histVars>>

\* line 104: so.connect; a socket.error goes to line 118, then to finally
KbConnect ==
    /\ entry = "keyboard" /\ kpc = "k_connect"
    /\ \/ /\ socks' = [socks EXCEPT ![so] = "conn"]
          /\ kpc' = "k_loop"
       \/ /\ kpc' = "k_finally"
          /\ UNCHANGED socks
    /\ UNCHANGED <<entry, LASER_STEP, rfdVars, wireVars, replyVars, seqVars, closes,
                   connVars, laserVars, so, cycles, callVars, hdrVars, histVars>>

\* line 107 finds rospy.is_shutdown(), or lines 108-113 raise (line 120)
KbLeaveLoop ==
    /\ entry = "keyboard" /\ kpc = "k_loop"
    /\ kpc' = "k_finally"
    /\ UNCHANGED <<entry, LASER_STEP, rfdVars, wireVars, replyVars, seqVars, closes,
                   connVars, laserVars, cycles, sockVars, callVars, hdrVars, histVars>>

\* lines 107-115: one more iteration, up to the call of line 115
KbMotion ==
    /\ entry = "keyboard" /\ kpc = "k_loop"
    /\ cycles < MaxCycles
    /\ CmdCall("motion", 1)
    /\ kpc' = "k_motion"
    /\ UNCHANGED <<entry, LASER_STEP, rfdVars, seqVars, closes, connVars, laserVars,
                   cycles>>

\* the call of line 115 ends: an exception it raised goes to lines 118-121;
\* otherwise rate.sleep(), line 116, which may raise too (ROS shutdown)
KbMotionReturn ==
    /\ entry = "keyboard" /\ kpc = "k_motion" /\ cpc = "done"
    /\ cpc' = "idle"
    /\ cycles' = cycles + 1
    /\ IF ret = "raise"
         THEN kpc' = "k_finally"
         ELSE kpc' \in {"k_loop", "k_finally"}
    /\ UNCHANGED <<entry, LASER_STEP, rfdVars, wireVars, replyVars, seqVars, closes,
                   connVars, laserVars, sockVars, api, retry, i, ret, lastErr, hdrVars,
                   histVars>>

\* KbFinally without the stop command of line 125
KbFinallyNoStop ==
    /\ entry = "keyboard" /\ kpc = "k_finally"
    /\ IF so # 0
         THEN /\ kpc' = "k_stop"
              /\ cpc' = "done"
              /\ UNCHANGED <<sockVars, api, retry, i, ret, lastErr, hdrVars, histVars>>
         ELSE /\ kpc' = "k_done"
              /\ UNCHANGED <<sockVars, callVars, hdrVars, histVars>>
    /\ UNCHANGED <<entry, LASER_STEP, rfdVars, wireVars, replyVars, seqVars, closes,
                   connVars, laserVars, cycles>>

\* lines 122-125: finally, and the stop command when so is set
KbFinally ==
    /\ entry = "keyboard" /\ kpc = "k_finally"
    /\ IF so # 0
         THEN /\ CmdCall("stop", 0)
              /\ kpc' = "k_stop"
         ELSE /\ kpc' = "k_done"
              /\ UNCHANGED <<sockVars, callVars, hdrVars, histVars, replyVars, wireVars>>
    /\ UNCHANGED <<entry, LASER_STEP, rfdVars, seqVars, closes, connVars, laserVars,
                   cycles>>

\* line 126: so.close() once the stop command returned
KbClose ==
    /\ entry = "keyboard" /\ kpc = "k_stop" /\ cpc = "done"
    /\ cpc' = "idle"
    /\ kpc' = "k_done"
    /\ socks' = IF ret = "raise" THEN socks ELSE Closed(socks, so)
    /\ UNCHANGED <<entry, LASER_STEP, rfdVars, wireVars, replyVars, seqVars, closes,
                   connVars, laserVars, so, cycles, api, retry, i, ret, lastErr,
                   hdrVars, histVars>>

(* agv_laser_get.py *)

\* the variables of agv_control.py, which agv_laser_get.py does not touch
controlOnly == <<so, kbVars, cpc, api, retry, i, ret, resp, timeouts, failSock>>

\* validate_laser_params, lines 31-42 (0.01 m and 20.0 m in centimetres)
validate_laser_params ==
    /\ 0 <= LASER_STEP /\ LASER_STEP <= 100
    /\ 1 <= LASER_RANGE_MIN /\ LASER_RANGE_MIN < LASER_RANGE_MAX
    /\ LASER_RANGE_MAX <= 2000
    /\ 1 <= ROS_PUB_FREQ /\ ROS_PUB_FREQ <= 50

\* validate_configuration, lines 44-52; AGV_IP ("192.168.1.121", line 17)
\* is set and starts with "192.168"
validate_configuration ==
    /\ TRUE
    /\ 1 <= API_PORT_STATE /\ API_PORT_STATE <= 65535

(* sensor bodies: a beam is a dict with some of the fields angle, dist
   (centimetres) and valid; a group is a dict that has a list "beams" or
   has none *)

NoFields == [f \in {} |-> 0]
AngleOpts == {NoFields} \cup {[angle |-> a] : a \in {0, 1}}
DistOpts == {NoFields} \cup
    {[dist |-> d] : d \in {LASER_RANGE_MIN - 1, LASER_RANGE_MIN,
                            LASER_RANGE_MAX, LASER_RANGE_MAX + 1}}
ValidOpts == {NoFields} \cup {[valid |-> v] : v \in BOOLEAN}
\* what is wrong with a beam, counted per field
Defects(b) ==
    (IF "angle" \in DOMAIN b THEN 0 ELSE 1)
    + (IF "dist" \in DOMAIN b
         THEN (IF b.dist \in {LASER_RANGE_MIN, LASER_RANGE_MAX} THEN 0 ELSE 1)
         ELSE 1)
    + (IF "valid" \in DOMAIN b THEN (IF b.valid THEN 0 ELSE 1) ELSE 1)
\* the beams a body is built from: at most one field missing or bad, and
\* angle 1 only on beams that have nothing wrong
Beams ==
    {b \in {a @@ d @@ v : a \in AngleOpts, d \in DistOpts, v \in ValidOpts} :
        /\ Defects(b) <= 1
        /\ ("angle" \in DOMAIN b /\ b.angle = 1) => Defects(b) = 0}

RECURSIVE SumBeams(_)
SumBeams(shape) ==
    IF shape = <<>> THEN 0
    ELSE (IF Head(shape) > 0 THEN Head(shape) ELSE 0) + SumBeams(Tail(shape))
\* group sizes of a body; -1 stands for a group with no "beams" field
Shapes ==
    UNION {{sh \in [1..n -> -1..MaxBeams] : SumBeams(sh) <= MaxBeams} :
             n \in 0..MaxGroups}
\* the body with group sizes sh over the beams flat
Grouped(sh, flat) ==
    [g \in 1..Len(sh) |->
        IF sh[g] = -1
          THEN [device_name |-> "laser"]
          ELSE [beams |-> SubSeq(flat, SumBeams(SubSeq(sh, 1, g - 1)) + 1,
                                       SumBeams(SubSeq(sh, 1, g)))]]
\* what the received bytes are when they are no JSON object with a list
\* "lasers", as get_laser_from_agv tells them apart
OtherBodies == {"badutf8", "badjson", "nonobject", "nolasers", "notlist"}

\* dict.get(key, default)
Get(d, key, default) == IF key \in DOMAIN d THEN d[key] ELSE default

\* BeamLoop with the upper range bound exclusive
RECURSIVE BeamLoopStrictMax(_, _)
BeamLoopStrictMax(beams, acc) ==
    IF beams = <<>> THEN acc
    ELSE LET beam == Head(beams) IN
         BeamLoopStrictMax(Tail(beams),
            IF "angle" \in DOMAIN beam /\ "dist" \in DOMAIN beam
               /\ Get(beam, "valid", FALSE)
              THEN IF LASER_RANGE_MIN <= beam.dist /\ beam.dist < LASER_RANGE_MAX
                     THEN Append(acc, <<beam.angle, beam.dist>>)
                     ELSE acc
              ELSE acc)

\* lines 184-193: the inner loop over the beams of one group
RECURSIVE BeamLoop(_, _)
BeamLoop(beams, acc) ==
    IF beams = <<>> THEN acc
    ELSE LET beam == Head(beams) IN
         BeamLoop(Tail(beams),
            IF "angle" \in DOMAIN beam /\ "dist" \in DOMAIN beam
               /\ Get(beam, "valid", FALSE)
              THEN IF LASER_RANGE_MIN <= beam.dist /\ beam.dist <= LASER_RANGE_MAX
                     THEN Append(acc, <<beam.angle, beam.dist>>)
                     ELSE acc
              ELSE acc)

\* lines 182-193: the loop over the groups
RECURSIVE LaserLoop(_, _)
LaserLoop(laser_beams, acc) ==
    IF laser_beams = <<>> THEN acc
    ELSE LaserLoop(Tail(laser_beams),
                   BeamLoop(Get(Head(laser_beams), "beams", <<>>), acc))

\* LsReturnNone leaving the function without the finally of lines 205-206
LsReturnNoneNoFinally(cause) ==
    /\ lastErr' = cause
    /\ result' = "None"
    /\ lpc' = "returned"

\* a return None inside the try, or the handler of lines 202-204; the
\* finally of line 205 is the step LsFinally
LsReturnNone(cause) ==
    /\ lastErr' = cause
    /\ result' = "None"
    /\ lpc' = "finally"

\* connect_to_agv's sock (line 87), the one socket this entry point creates
ConnSock == Len(socks)

\* lines 111-117 and 87-89: validation, then connect_to_agv creates its socket
LsValidate ==
    /\ entry = "laser" /\ lpc = "validate"
    /\ IF validate_configuration /\ validate_laser_params
         THEN /\ socks' = Append(socks, "new")
              /\ lpc' = "connect"
              /\ UNCHANGED <<lastErr, result>>
         ELSE /\ LsReturnNone("config")
              /\ UNCHANGED socks
    /\ UNCHANGED <<entry, LASER_STEP, rfdVars, wireVars, replyVars, seqVars, closes,
                   connVars, controlOnly, hdrState, json_data_len, corr, bodyReads,
                   sends, sendSock, closedSends, sock, attempt, laser_json, valid_beams,
                   mainBranch>>

\* LsConnect with one attempt more than range(3) of line 91 gives
LsConnectFourAttempts ==
    /\ entry = "laser" /\ lpc = "connect"
    /\ connects' = connects + 1
    /\ \/ /\ socks' = [socks EXCEPT ![ConnSock] = "conn"]
          /\ sock' = ConnSock
          /\ attempt' = 0
          /\ lpc' = "send"
          /\ UNCHANGED <<lastErr, result, connFails>>
       \/ /\ UNCHANGED socks
          /\ connFails' = connFails + 1
          /\ IF attempt < 3
               THEN lpc' = "wait" /\ UNCHANGED <<sock, attempt, lastErr, result>>
               ELSE sock' = 0 /\ attempt' = 0 /\ LsReturnNone("connect")
    /\ UNCHANGED <<entry, LASER_STEP, rfdVars, wireVars, replyVars, seqVars, closes,
                   waits, controlOnly, hdrState, json_data_len, corr, bodyReads, sends,
                   sendSock, closedSends, laser_json, valid_beams, mainBranch>>

\* one connect attempt of connect_to_agv, lines 91-103, and lines 117-119
LsConnect ==
    /\ entry = "laser" /\ lpc = "connect"
    /\ connects' = connects + 1
    /\ \/ /\ socks' = [socks EXCEPT ![ConnSock] = "conn"]
          /\ sock' = ConnSock
          /\ attempt' = 0
          /\ lpc' = "send"
          /\ UNCHANGED <<lastErr, result, connFails>>
       \/ /\ UNCHANGED socks
          /\ connFails' = connFails + 1
          /\ IF attempt < 2
               THEN lpc' = "wait" /\ UNCHANGED <<sock, attempt, lastErr, result>>
               ELSE sock' = 0 /\ attempt' = 0 /\ LsReturnNone("connect")
    /\ UNCHANGED <<entry, LASER_STEP, rfdVars, wireVars, replyVars, seqVars, closes,
                   waits, controlOnly, hdrState, json_data_len, corr, bodyReads, sends,
                   sendSock, closedSends, laser_json, valid_beams, mainBranch>>

\* time.sleep(3), line 100, and the next attempt
LsWait ==
    /\ entry = "laser" /\ lpc = "wait"
    /\ attempt' = attempt + 1
    /\ waits' = waits + 1
    /\ lpc' = "connect"
    /\ UNCHANGED <<entry, LASER_STEP, rfdVars, wireVars, replyVars, seqVars, closes,
                   connects, connFails, controlOnly, socks, lastErr, hdrState,
                   json_data_len, corr, bodyReads, sends, sendSock, closedSends, sock,
                   laser_json, valid_beams, result, mainBranch>>

\* lines 121-131: sock.send(request); a timeout or an error is caught at 202
LsSend ==
    /\ entry = "laser" /\ lpc = "send"
    /\ sends' = sends + 1
    /\ sendSock' = sock
    /\ closedSends' = IF socks[sock] = "closed" THEN closedSends + 1 ELSE closedSends
    /\ \/ lpc' = "header" /\ Request(sock) /\ UNCHANGED <<lastErr, result>>
       \/ LsReturnNone("send") /\ UNCHANGED seqVars
    /\ UNCHANGED <<entry, LASER_STEP, rfdVars, wireVars, replyVars, closes, connVars,
                   controlOnly, socks, hdrState, json_data_len, corr, bodyReads, sock,
                   attempt, laser_json, valid_beams, mainBranch>>

\* LsHeaderRead without the response type check of lines 158-160
LsHeaderReadAnyType(len, c) ==
    /\ hdrState' = "ok" /\ json_data_len' = len /\ corr' = c
    /\ IF len > MAX_DATA_LEN
         THEN LsReturnNone("size")
         ELSE IF len < 0
           THEN LsReturnNone("neglen")
           ELSE lpc' = "body" /\ UNCHANGED <<lastErr, result>>

\* lines 141-160 for a header of 16 bytes that unpackHead accepts
LsHeaderRead(len, c) ==
    /\ hdrState' = "ok" /\ json_data_len' = len /\ corr' = c
    /\ IF len > MAX_DATA_LEN
         THEN LsReturnNone("size")
         ELSE IF len < 0
           THEN LsReturnNone("neglen")
           ELSE IF c # ROBOT_STATUS_LASER_RESP
             THEN LsReturnNone("mismatch")
             ELSE lpc' = "body" /\ UNCHANGED <<lastErr, result>>

\* header = sock.recv(16) and what follows, lines 134-160
LsRecvHeader ==
    /\ entry = "laser" /\ lpc = "header"
    /\ \/ \E e \in {"timeout", "sockerr"} :
            /\ LsReturnNone(e)
            /\ frame' = FALSE
            /\ UNCHANGED <<hdrState, json_data_len, corr, unread>>
       \/ \* fewer than 16 bytes, lines 137-139: the peer closed or sent no
          \* more, or these are the first chunk of a whole frame
          /\ hdrState' = "short"
          /\ LsReturnNone("short")
          /\ \/ frame' = FALSE /\ unread' = FALSE
             \/ frame' = TRUE /\ unread' = TRUE
          /\ UNCHANGED <<json_data_len, corr>>
       \/ \* unpackHead raises, lines 145-147 (or line 202)
          /\ hdrState' = "bad"
          /\ LsReturnNone("unpack")
          /\ frame' = FALSE
          /\ UNCHANGED <<json_data_len, corr, unread>>
       \/ \E len \in HeaderLens, c \in Correlators :
            /\ LsHeaderRead(len, c)
            /\ frame' = (0 < len /\ len <= MAX_DATA_LEN
                          /\ c = ROBOT_STATUS_LASER_RESP)
            /\ UNCHANGED unread
    /\ UNCHANGED <<entry, LASER_STEP, rfdVars, replyVars, seqVars, closes, connVars,
                   controlOnly, socks, bodyReads, sends, sendSock, closedSends, sock,
                   attempt, laser_json, valid_beams, mainBranch>>

\* resp_data = receive_full_data(sock, json_data_len), lines 163-165 and
\* 67-83: nothing is read for length 0 and b"" is falsy; else the reads end
\* with all the bytes, with a closed connection, or with an exception
LsRecvBody ==
    /\ entry = "laser" /\ lpc = "body"
    /\ IF json_data_len = 0
         THEN /\ LsReturnNone("nobody")
              /\ UNCHANGED <<bodyReads, laser_json, frame>>
         ELSE /\ bodyReads' = bodyReads + 1
              /\ \/ \E e \in {"timeout", "sockerr", "closed"} :
                      /\ LsReturnNone(e)
                      /\ frame' = FALSE
                      /\ UNCHANGED laser_json
                 \/ /\ \/ \E k \in OtherBodies :
                            /\ laser_json' = [kind |-> k, lasers |-> <<>>]
                            /\ frame' = FALSE
                       \/ \E sh \in Shapes :
                            \E flat \in [1..SumBeams(sh) -> Beams] :
                               /\ laser_json' = [kind |-> "object",
                                                 lasers |-> Grouped(sh, flat)]
                               /\ UNCHANGED frame
                    /\ lpc' = "parse"
                    /\ UNCHANGED <<lastErr, result>>
    /\ UNCHANGED <<entry, LASER_STEP, rfdVars, unread, replyVars, seqVars, closes,
                   connVars, controlOnly, socks, hdrState, json_data_len, corr, sends,
                   sendSock, closedSends, sock, attempt, valid_beams, mainBranch>>

\* lines 167-200: decode, extract the groups, filter the beams
LsParse ==
    /\ entry = "laser" /\ lpc = "parse"
    /\ IF laser_json.kind = "badjson"
         THEN LsReturnNone("badjson") /\ UNCHANGED valid_beams
         ELSE IF laser_json.kind \in {"badutf8", "nonobject"}
           THEN LsReturnNone("exc") /\ UNCHANGED valid_beams
           ELSE IF laser_json.kind \in {"nolasers", "notlist"}
                   \/ Len(laser_json.lasers) = 0
             THEN LsReturnNone("nolasers") /\ UNCHANGED valid_beams
             ELSE /\ valid_beams' = LaserLoop(laser_json.lasers, <<>>)
                  /\ IF valid_beams' = <<>>
                       THEN LsReturnNone("allinvalid")
                       ELSE /\ result' = "list"
                            /\ lpc' = "finally"
                            /\ UNCHANGED lastErr
    /\ UNCHANGED <<entry, LASER_STEP, rfdVars, wireVars, replyVars, seqVars, closes,
                   connVars, controlOnly, socks, hdrState, json_data_len, corr,
                   bodyReads, sends, sendSock, closedSends, sock, attempt, laser_json,
                   mainBranch>>

\* finally: sock.close(), lines 205-206; with sock unbound or None the
\* statement raises and the exception replaces the return value
LsFinally ==
    /\ entry = "laser" /\ lpc = "finally"
    /\ IF sock >= 1
         THEN socks' = Closed(socks, sock) /\ closes' = closes + 1
              /\ UNCHANGED result
         ELSE result' = "raise" /\ UNCHANGED <<socks, closes>>
    /\ lpc' = "returned"
    /\ UNCHANGED <<entry, LASER_STEP, rfdVars, wireVars, replyVars, seqVars, connVars,
                   controlOnly, lastErr, hdrState, json_data_len, corr, bodyReads,
                   sends, sendSock, closedSends, sock, attempt, laser_json, valid_beams,
                   mainBranch>>

\* __main__, lines 241-247: publish a truthy result, else log the failure
LsMain ==
    /\ entry = "laser" /\ lpc = "returned"
    /\ mainBranch' = IF result = "list" THEN "publish"
                     ELSE IF result = "None" THEN "logerr" ELSE "crash"
    /\ lpc' = "exit"
    /\ UNCHANGED <<entry, LASER_STEP, rfdVars, wireVars, replyVars, seqVars, closes,
                   connVars, controlOnly, socks, lastErr, hdrState, json_data_len, corr,
                   bodyReads, sends, sendSock, closedSends, sock, attempt, laser_json,
                   valid_beams, result>>

-----------------------------------------------------------------------------
(* receive_full_data, agv_laser_get.py:67-83, called on its own with a
   socket that delivers the stream bytes 1, 2, 3, ... in chunks *)

\* the variables receive_full_data does not touch
notRfdVars == <<entry, LASER_STEP, wireVars, replyVars, seqVars, closes, connVars,
                laserVars, kbVars, sockVars, callVars, hdrVars, histVars>>

Min(a, b) == IF a < b THEN a ELSE b

\* the bytes at the stream positions a+1 .. a+k
Chunk(a, k) == [p \in 1..k |-> a + p]

\* lines 69-70: received = b"", remaining = expected_len
RfdCall ==
    /\ entry = "receive" /\ rpc = "call"
    /\ received' = <<>>
    /\ remaining' = expected_len
    /\ rpc' = "loop"
    /\ UNCHANGED <<notRfdVars, expected_len, delivered, zeroRead, lastReq, lastRem,
                   rret>>

\* RfdRecv returning what it has when the peer closed, instead of None
RfdRecvPartial ==
    /\ entry = "receive" /\ rpc = "loop" /\ remaining > 0
    /\ lastReq' = Min(remaining, RECV_SIZE)
    /\ lastRem' = remaining
    /\ \/ /\ rret' = "raise" /\ rpc' = "returned"
          /\ UNCHANGED <<received, remaining, delivered, zeroRead>>
       \/ \E k \in 0..Min(remaining, RECV_SIZE) :
            /\ delivered' = delivered + k
            /\ IF k = 0
                 THEN /\ zeroRead' = TRUE
                      /\ rret' = "bytes" /\ rpc' = "returned"
                      /\ UNCHANGED <<received, remaining>>
                 ELSE /\ received' = received \o Chunk(delivered, k)
                      /\ remaining' = remaining - k
                      /\ UNCHANGED <<zeroRead, rret, rpc>>
    /\ UNCHANGED <<notRfdVars, expected_len>>

\* one iteration of the loop, lines 71-78: sock.recv(min(remaining, 8192))
\* raises, or returns k bytes, at most as many as asked for; none means the
\* peer closed
RfdRecv ==
    /\ entry = "receive" /\ rpc = "loop" /\ remaining > 0
    /\ lastReq' = Min(remaining, RECV_SIZE)
    /\ lastRem' = remaining
    /\ \/ /\ rret' = "raise" /\ rpc' = "returned"
          /\ UNCHANGED <<received, remaining, delivered, zeroRead>>
       \/ \E k \in 0..Min(remaining, RECV_SIZE) :
            /\ delivered' = delivered + k
            /\ IF k = 0
                 THEN /\ zeroRead' = TRUE
                      /\ rret' = "None" /\ rpc' = "returned"
                      /\ UNCHANGED <<received, remaining>>
                 ELSE /\ received' = received \o Chunk(delivered, k)
                      /\ remaining' = remaining - k
                      /\ UNCHANGED <<zeroRead, rret, rpc>>
    /\ UNCHANGED <<notRfdVars, expected_len>>

\* the loop ends, lines 80-83: the length check, then return received
RfdExit ==
    /\ entry = "receive" /\ rpc = "loop" /\ remaining <= 0
    /\ rret' = IF Len(received) # expected_len THEN "None" ELSE "bytes"
    /\ rpc' = "returned"
    /\ UNCHANGED <<notRfdVars, expected_len, remaining, received, delivered, zeroRead,
                   lastReq, lastRem>>

-----------------------------------------------------------------------------
Init ==
    /\ entry \in {"keyboard", "command", "laser", "receive"}
    /\ kpc = IF entry = "keyboard" THEN "k_start"
             ELSE IF entry = "command" THEN "c_call" ELSE "off"
    /\ \E s \in {0, 1} :
         /\ entry # "command" => s = 0
         /\ so = s
         /\ socks = IF s = 0 THEN <<>> ELSE <<"conn">>
    /\ cycles = 0
    /\ cpc = "idle" /\ api = "none" /\ retry = 0 /\ i = 0
    /\ ret = "none" /\ lastErr = "none"
    /\ hdrState = "none" /\ json_data_len = 0 /\ corr = 0
    /\ resp = "none" /\ bodyReads = 0
    /\ sends = 0 /\ timeouts = 0 /\ failSock = 0 /\ sendSock = 0 /\ closedSends = 0
    /\ LASER_STEP \in LaserSteps
    /\ entry # "laser" => LASER_STEP = 1
    /\ lpc = IF entry = "laser" THEN "validate" ELSE "off"
    /\ sock = -1 /\ attempt = 0
    /\ laser_json = [kind |-> "none", lasers |-> <<>>]
    /\ valid_beams = <<>>
    /\ result = "none" /\ mainBranch = "none"
    /\ connects = 0 /\ connFails = 0 /\ waits = 0 /\ closes = 0
    /\ reqSock = 0 /\ reqNum = 0 /\ prevNum = 0
    /\ owed = 0 /\ stale = FALSE
    /\ frame = FALSE /\ unread = FALSE
    /\ rpc = IF entry = "receive" THEN "call" ELSE "off"
    /\ expected_len \in 0..MaxLen
    /\ entry # "receive" => expected_len = 0
    /\ remaining = 0 /\ received = <<>> /\ delivered = 0
    /\ zeroRead = FALSE /\ lastReq = 0 /\ lastRem = 0 /\ rret = "none"

Next ==
    \/ CallerCall
    \/ CallerReturn
    \/ KbSocket
    \/ KbConnect
    \/ KbLeaveLoop
    \/ KbMotion
    \/ KbMotionReturn
    \/ KbFinally
    \/ KbClose
    \/ CmdSend
    \/ CmdRecvHeader
    \/ CmdRecvBody
    \/ CmdReconnect
    \/ CmdSleep
    \/ LsValidate
    \/ LsConnect
    \/ LsWait
    \/ LsSend
    \/ LsRecvHeader
    \/ LsRecvBody
    \/ LsParse
    \/ LsFinally
    \/ LsMain
    \/ RfdCall
    \/ RfdRecv
    \/ RfdExit

Spec == Init /\ [][Next]_vars

-----------------------------------------------------------------------------
(* Properties *)

\* the call of send_control_command is running
InCall == cpc \notin {"idle", "done"}

\* a variant of the call: it decreases with every step the call takes
CallRank ==
    IF cpc = "send" THEN 5
    ELSE IF cpc = "recvHeader" THEN 4
    ELSE IF cpc = "recvBody" THEN 3
    ELSE IF cpc = "reconnect" THEN 2
    ELSE IF cpc = "sleep" THEN 1 ELSE 0
CallVariant == (retry - i) * 6 + CallRank

\* C1 -- Retry bound: a call send_control_command(api, params, retry=r) never
\* makes more than r + 1 send attempts; when it has ended and every attempt
\* ended in a receive timeout, it made exactly r + 1 send attempts and
\* returned False; and it cannot loop forever, every step of the call
\* decreasing a non-negative variant.
RetryBound ==
    /\ [](/\ cpc # "idle" => sends <= retry + 1
          /\ InCall => CallVariant >= 0
          /\ (cpc = "done" /\ sends > 0 /\ timeouts = sends)
                => (sends = retry + 1 /\ ret = "False"))
    /\ [][InCall => CallVariant' < CallVariant]_vars

\* a call with retries that ended after timeouts only
RetryBoundWitness ==
    /\ cpc = "done" /\ retry >= 1
    /\ timeouts = retry + 1 /\ sends = retry + 1
    /\ ret = "False"

\* C2 -- A device rejection is not retried: once an attempt of the call has
\* received a body whose ret_code is not 0, the call sends no further request.
RejectionNotRetried ==
    [][(cpc # "idle" /\ lastErr = "reject") => sends' = sends]_vars

\* C3 -- Size enforcement: in send_control_command and in get_laser_from_agv,
\* while the header of the attempt declares more than 10 MiB, no body read
\* has been issued since that header was read.
SizeEnforcement ==
    (hdrState = "ok" /\ json_data_len > MAX_DATA_LEN) => bodyReads = 0

\* get_laser_from_agv ended on a header that declares 11 MiB
SizeEnforcementWitness ==
    /\ entry = "laser" /\ lpc = "exit"
    /\ hdrState = "ok" /\ json_data_len = 11 * 1024 * 1024
    /\ lastErr = "size" /\ result = "None"
\* C4 -- Size-limit and decode errors are never retried: once an attempt of
\* send_control_command or get_laser_from_agv has seen a header that declares
\* more than 10 MiB, or a body that is not valid JSON, the call sends no
\* further request.
SizeAndDecodeNotRetried ==
    [][((cpc # "idle" \/ lpc # "off") /\ lastErr \in {"size", "json", "badjson"})
          => sends' = sends]_vars

\* C5 -- Reconnect on transport failure: a send of send_control_command that
\* follows a transport failure of the same call (receive timeout, short
\* header, socket error) goes out on another socket than the one that
\* failed, and the failed one has been closed.
ReconnectOnTransportFailure ==
    [][(cpc = "send" /\ sends' = sends + 1 /\ failSock # 0)
          => (so # failSock /\ socks[failSock] = "closed")]_vars

\* C6 -- Stop-then-close: when agv_keyboard_control has ended with a socket
\* object created, the last call was the stop command with retry 0, it made
\* exactly one send attempt, on the socket so, that socket is closed now, and
\* no send was ever attempted on a closed socket.
StopThenClose ==
    (entry = "keyboard" /\ kpc = "k_done" /\ so # 0)
        => /\ api = "stop" /\ retry = 0 /\ cpc = "idle"
           /\ sends = 1 /\ sendSock = so
           /\ socks[so] = "closed"
           /\ closedSends = 0

\* agv_keyboard_control ended after a reconnect inside a motion command
StopThenCloseWitness ==
    /\ entry = "keyboard" /\ kpc = "k_done"
    /\ Len(socks) = 2 /\ so = 2
    /\ api = "stop" /\ sends = 1
    /\ socks[1] = "closed" /\ socks[2] = "closed"

\* all beams of all groups, in source order
RECURSIVE AllBeams(_)
AllBeams(lasers) ==
    IF lasers = <<>> THEN <<>>
    ELSE (IF "beams" \in DOMAIN Head(lasers) THEN Head(lasers).beams ELSE <<>>)
         \o AllBeams(Tail(lasers))
\* the beams the filter is to include
Included(b) ==
    /\ {"angle", "dist"} \subseteq DOMAIN b
    /\ "valid" \in DOMAIN b /\ b.valid = TRUE
    /\ b.dist \in LASER_RANGE_MIN..LASER_RANGE_MAX
\* the reference filter: the included beams as [angle, dist], in source order
ReferenceFilter(lasers) ==
    LET kept == SelectSeq(AllBeams(lasers), Included)
    IN  [k \in 1..Len(kept) |-> <<kept[k].angle, kept[k].dist>>]

\* the groups of the body have been filtered
Filtered ==
    /\ lpc \in {"finally", "returned", "exit"}
    /\ laser_json.kind = "object" /\ Len(laser_json.lasers) > 0

NoValidDataDistinct ==
    (lpc \in {"returned", "exit"} /\ lastErr \in {"nolasers", "allinvalid"})
        => result # "None"

\* C9 -- Command success requires ret_code = 0: send_control_command returns
\* True only if the attempt read a header, received the body it declares,
\* and that body is a JSON object with a ret_code field equal to 0.
SuccessRequiresRetCodeZero ==
    ret = "True" => (hdrState = "ok" /\ bodyReads > 0 /\ resp = "rc_zero")

\* C10 -- Query correlation: get_laser_from_agv returns a point list only if
\* the header correlator is ROBOT_STATUS_LASER_RESP; on a header with any
\* other correlator the call ends in failure (None) and no body read is issued
\* for that header.
QueryCorrelation ==
    entry = "laser" =>
        /\ result = "list" => (hdrState = "ok" /\ corr = ROBOT_STATUS_LASER_RESP)
        /\ (hdrState = "ok" /\ corr # ROBOT_STATUS_LASER_RESP)
              => /\ bodyReads = 0
                 /\ lpc \in {"finally", "returned", "exit"}
                 /\ result = "None"

\* get_laser_from_agv ended on a header of an allowed length that echoes a
\* sequence number
QueryCorrelationWitness ==
    /\ entry = "laser" /\ lpc = "exit"
    /\ hdrState = "ok" /\ json_data_len = SmallLen /\ corr = 1
    /\ lastErr = "mismatch" /\ result = "None" /\ bodyReads = 0

\* C18 -- Reconnect failure is a returned failure: every call of
\* send_control_command made with an established socket object ends by
\* returning True or False, also when the reconnect attempted after a socket
\* error fails to connect.
ReconnectFailureReturned ==
    (cpc = "done" /\ so # 0) => ret \in {"True", "False"}

\* C14 -- Failures are values and close never raises: every call of
\* get_laser_from_agv ends by returning a point list or None; when validation
\* fails or connect_to_agv gives up, the cleanup raises nothing and the call
\* returns None.
FailuresAreValues ==
    (entry = "laser" /\ lpc \in {"returned", "exit"}) => result \in {"list", "None"}

\* C16 -- Closed is terminal: no send, recv or connect is performed on a
\* socket object after close was called on it; whenever the program stands
\* before a send, a recv or a connect, the socket it is about to use is not a
\* closed one, and the reconnect path has replaced the closed socket by then.
ClosedIsTerminal ==
    /\ closedSends = 0
    /\ cpc \in {"send", "recvHeader", "recvBody"} => socks[so] # "closed"
    /\ kpc = "k_connect" => socks[so] # "closed"
    /\ lpc \in {"connect", "wait"} => socks[ConnSock] # "closed"
    /\ lpc \in {"send", "header", "body"} => socks[sock] # "closed"

\* after a transport failure the old socket is closed and the request has
\* been sent again on its replacement
ClosedIsTerminalWitness ==
    /\ cpc = "recvHeader" /\ sendSock = so
    /\ failSock # 0 /\ failSock # so
    /\ socks[failSock] = "closed" /\ socks[so] = "conn"

\* C13 -- Connect bound: connect_to_agv makes at most 3 connect attempts; it
\* returns the connected socket at the first attempt that succeeds and
\* attempts no more; after the 3rd consecutive failure it returns None without
\* a 4th attempt; a wait separates consecutive attempts and none follows the
\* last failed attempt.
ConnectBound ==
    entry = "laser" =>
        /\ connects <= 3
        /\ lpc = "validate" => connects = 0 /\ waits = 0
        /\ lpc = "connect" =>
             connects < 3 /\ connFails = connects /\ waits = connects
        /\ lpc = "wait" =>
             connects < 3 /\ connFails = connects /\ waits = connects - 1
        /\ (lpc \notin {"validate", "connect", "wait"} /\ sock >= 1) =>
             connFails = connects - 1 /\ waits = connFails
        /\ (lpc \notin {"validate", "connect", "wait"} /\ sock = 0) =>
             connects = 3 /\ connFails = 3 /\ waits = 2 /\ result # "list"

\* connect_to_agv gave up: three failed attempts, two waits, None
ConnectBoundWitness ==
    /\ entry = "laser" /\ lpc = "exit" /\ sock = 0
    /\ connects = 3 /\ connFails = 3 /\ waits = 2 /\ lastErr = "connect"

\* C19 -- One request, one close: a call of get_laser_from_agv that obtained
\* a connected socket sends at most one request on it and closes it exactly
\* once before the call ends, on the success path and on every failure path.
OneRequestOneClose ==
    (entry = "laser" /\ sock >= 1) =>
        /\ sends <= 1
        /\ lpc \in {"returned", "exit"} =>
             closes = 1 /\ socks[sock] = "closed"
        /\ lpc \notin {"returned", "exit"} =>
             closes = 0 /\ socks[sock] = "conn"

\* the call ended on a closed read of the body: one request, one close
OneRequestOneCloseWitness ==
    /\ entry = "laser" /\ lpc = "returned" /\ sock >= 1
    /\ lastErr = "closed" /\ result = "None"
    /\ sends = 1 /\ closes = 1 /\ socks[sock] = "closed"

\* C12 -- Sequence numbers: across the requests sent on one connection
\* (successive send_control_command calls and the retries within one call),
\* the sequence number encoded into each request is strictly greater than the
\* one encoded into the previous request.
SequenceNumbersIncrease ==
    prevNum # 0 => reqNum > prevNum

\* C17 -- No stale response is accepted: every response frame that
\* send_control_command uses to decide its result is the device's reply to the
\* most recent request sent on the current socket; a reply to an earlier
\* request whose read timed out is never consumed as the result of a later
\* request.
NoStaleResponse ==
    (cpc = "done" /\ ret = "True") => ~stale

\* C11 -- Chunked delivery: when the peer sends one complete, well-formed
\* response frame and keeps the connection open, the exchange in
\* send_control_command and in get_laser_from_agv succeeds however the
\* transport splits the 16 header bytes and the body bytes into chunks: the
\* header is not taken for short, the body is not decoded from a part of its
\* bytes, and no bytes of the frame are left unread on the socket.
ChunkedDelivery ==
    frame => /\ hdrState # "short"
             /\ resp \notin {"badjson", "badutf8"}
             /\ ~unread

\* C15 -- Exact read or failure: for every expected_len > 0 and every
\* sequence of chunk sizes the socket delivers, receive_full_data returns
\* exactly expected_len bytes, the delivered chunks concatenated in order, or
\* returns None; it returns None exactly when a zero-byte read occurs before
\* expected_len bytes have accumulated; it never asks for more than remaining
\* in one read and never returns a partial buffer.
ExactReadOrFailure ==
    (entry = "receive" /\ expected_len > 0) =>
        /\ lastReq <= lastRem
        /\ received = Chunk(0, delivered)
        /\ (rpc = "returned" /\ rret # "raise") => rret \in {"bytes", "None"}
        /\ rret = "bytes" =>
             /\ Len(received) = expected_len
             /\ received = Chunk(0, expected_len)
        /\ rret = "None" <=>
             (rpc = "returned" /\ zeroRead /\ Len(received) < expected_len)

\* the peer closed after two chunks of one byte, one byte before the end
ExactReadOrFailureWitness ==
    /\ entry = "receive" /\ expected_len = MaxLen /\ rpc = "returned"
    /\ rret = "None" /\ zeroRead /\ received = Chunk(0, MaxLen - 1)
    /\ lastReq = 1 /\ lastRem = 1
====
